---- MODULE Spec2Model ----
(***************************************************************************)
(* Model of html2tree.py: the tree builder HTMLTree.html_to_tree, the      *)
(* pruner TagNode.clean / HTMLTree.clean and the text extractor            *)
(* TagNode.pure_text / HTMLTree.pure_text.                                 *)
(*                                                                         *)
(* Nodes live in an arena `nodes` (a sequence of node records); a node is  *)
(* named by its index, which is also its creation order.  Node 1 is the    *)
(* synthetic root.  A Python string is a sequence of pieces, each piece    *)
(* being either a whitespace character or a whitespace-free word.          *)
(***************************************************************************)
EXTENDS Integers, Sequences, FiniteSets, TLC

VARIABLES nodes, pointer, path, status, error, consumed, tok,
          tags_delete, attrs_delete, cleaned, text, procs, heap

\* nodes        the node objects, root first (TagNode / DataNode fields)
\* pointer      HTMLTree.pointer, the node under operation
\* path         HTMLTree.path, the LifoQueue of open ancestors, top last
\* status       where html_to_tree stands: "building" (in the loop), "built"
\*              (returned), "error" (an exception left it), "blocked"
\* error        the raise statement that ended the build: "TagMismatch"
\*              (TagNode.close), "ClosedPointer" (close_node / self_close on a
\*              closed pointer), "EmptyPath" (self_close), "RootNotClosed"
\*              (check_sanity); "none" otherwise
\* consumed     the number of parser events handled
\* tok          the parser event handled last
\* tags_delete, attrs_delete   the arguments of the last HTMLTree.clean call
\* cleaned      HTMLTree.clean has been called on the built tree
\* text         what HTMLTree.pure_text returned, once called
\* procs        two callers, each running html_to_tree, clean and pure_text
\*              on a parser and a tree of its own
\* heap         the list objects the callers can reach: the class attributes
\*              HTMLTreeParser.members / types, the lists of each parser
\*              instance, the default argument lists of clean
vars == <<nodes, pointer, path, status, error, consumed, tok,
          tags_delete, attrs_delete, cleaned, text, procs, heap>>

\* the state of the single build
tvars == <<nodes, pointer, path, status, error, consumed, tok,
           tags_delete, attrs_delete, cleaned, text>>

\* Longest token stream fed to html_to_tree.
MaxTokens == 4

----------------------------------------------------------------------------
\* Strings

Whitespace == {" ", "\t", "\n"}

RECURSIVE lstrip(_)
lstrip(s) ==
    IF s = <<>> THEN <<>>
    ELSE IF Head(s) \in Whitespace THEN lstrip(Tail(s)) ELSE s

RECURSIVE rstrip(_)
rstrip(s) ==
    IF s = <<>> THEN <<>>
    ELSE IF s[Len(s)] \in Whitespace THEN rstrip(SubSeq(s, 1, Len(s) - 1)) ELSE s

\* str.strip()
strip(s) == rstrip(lstrip(s))

\* str.split() followed by set(): the set of whitespace-free words
split_set(s) == {s[i] : i \in {j \in 1..Len(s) : s[j] \notin Whitespace}}

\* re.sub(r'\s+', ' ', s): every maximal run of whitespace becomes one space
RECURSIVE collapse_ws(_)
collapse_ws(s) ==
    IF s = <<>> THEN <<>>
    ELSE IF Head(s) \in Whitespace
         THEN <<" ">> \o collapse_ws(lstrip(s))
         ELSE <<Head(s)>> \o collapse_ws(Tail(s))

\* the elements of a list
Range(s) == {s[i] : i \in 1..Len(s)}

\* ' '.join(parts)
RECURSIVE join_space(_)
join_space(parts) ==
    IF parts = <<>> THEN <<>>
    ELSE IF Len(parts) = 1 THEN parts[1]
    ELSE parts[1] \o <<" ">> \o join_space(Tail(parts))

----------------------------------------------------------------------------
\* Node model

\* {attr: set(attr_v.split()) for attr, attr_v in attrs}: the last pair of a
\* repeated attribute name wins
attrs_dict(attrs) ==
    [a \in {attrs[i][1] : i \in 1..Len(attrs)} |->
        LET last == CHOOSE i \in 1..Len(attrs) :
                        /\ attrs[i][1] = a
                        /\ \A j \in 1..Len(attrs) : attrs[j][1] = a => j <= i
        IN  split_set(attrs[last][2])]

\* dict.get(key, set())
attrs_get(d, key) == IF key \in DOMAIN d THEN d[key] ELSE {}

TagNode(tag, attrs) ==
    [kind |-> "tag", tag |-> tag, level |-> 0, closed |-> FALSE,
     attrs |-> attrs_dict(attrs), children |-> <<>>, data |-> <<>>]

DataNode(data) ==
    [kind |-> "data", tag |-> "data", level |-> 0, closed |-> TRUE,
     attrs |-> attrs_dict(<<>>), children |-> <<>>, data |-> data]

\* Mutant of add_child: the new child is put in front
add_child_front(node, new_child) ==
    [node EXCEPT !.children = <<new_child>> \o @]

add_child(node, new_child) ==
    [node EXCEPT !.children = Append(@, new_child)]

TagNode_self_close(node) == [node EXCEPT !.closed = TRUE]

\* Mutant of TagNode_close: the node is marked closed before the names are
\* compared
TagNode_close_marking(node, closing_tag) ==
    [node |-> [node EXCEPT !.closed = TRUE],
     exc  |-> IF closing_tag = node.tag THEN "none" ELSE "TagMismatch"]

\* The result carries the exception raised, "none" when the call returns.
TagNode_close(node, closing_tag) ==
    IF closing_tag = node.tag
    THEN [node |-> [node EXCEPT !.closed = TRUE], exc |-> "none"]
    ELSE [node |-> node, exc |-> "TagMismatch"]

----------------------------------------------------------------------------
\* HTMLTree: a tree value is [nodes, pointer, path, exc]

ROOT == 1

HTMLTree_init ==
    [nodes |-> <<TagNode("root", <<>>)>>, pointer |-> ROOT, path |-> <<>>,
     exc |-> "none"]

\* Mutant of add_node: the cursor is not put on the path
add_node_unpushed(tr, node) ==
    LET new == [node EXCEPT !.level = tr.nodes[tr.pointer].level + 1]
        id  == Len(tr.nodes) + 1
        ns  == Append(tr.nodes, new)
    IN  [tr EXCEPT !.nodes = [ns EXCEPT ![tr.pointer] = add_child(@, id)],
                   !.pointer = id]

add_node(tr, node) ==
    LET new  == [node EXCEPT !.level = tr.nodes[tr.pointer].level + 1]
        id   == Len(tr.nodes) + 1
        ns   == Append(tr.nodes, new)
        ns2  == [ns EXCEPT ![tr.pointer] = add_child(@, id)]
        kids == ns2[tr.pointer].children
    IN  [tr EXCEPT !.nodes = ns2,
                   !.path = Append(tr.path, tr.pointer),
                   !.pointer = kids[Len(kids)]]

\* Mutant of add_data: the level of the data node is not set
add_data_unlevelled(tr, data_node) ==
    LET id == Len(tr.nodes) + 1
        ns == Append(tr.nodes, data_node)
    IN  [tr EXCEPT !.nodes = [ns EXCEPT ![tr.pointer] = add_child(@, id)]]

add_data(tr, data_node) ==
    LET new == [data_node EXCEPT !.level = tr.nodes[tr.pointer].level + 1]
        id  == Len(tr.nodes) + 1
        ns  == Append(tr.nodes, new)
    IN  [tr EXCEPT !.nodes = [ns EXCEPT ![tr.pointer] = add_child(@, id)]]

\* Mutant of close_node: an empty path is reported before the names are
\* compared
close_node_underflow_first(tr, closing_tag) ==
    IF tr.nodes[tr.pointer].closed
    THEN [tr EXCEPT !.exc = "ClosedPointer"]
    ELSE IF tr.path = <<>>
    THEN [tr EXCEPT !.exc = "EmptyPath"]
    ELSE LET r == TagNode_close(tr.nodes[tr.pointer], closing_tag)
         IN  IF r.exc # "none"
             THEN [tr EXCEPT !.exc = r.exc]
             ELSE [tr EXCEPT !.nodes = [tr.nodes EXCEPT ![tr.pointer] = r.node],
                             !.pointer = tr.path[Len(tr.path)],
                             !.path = SubSeq(tr.path, 1, Len(tr.path) - 1)]

\* LifoQueue.get() on an empty queue never returns: exc "Blocked"
close_node(tr, closing_tag) ==
    IF tr.nodes[tr.pointer].closed
    THEN [tr EXCEPT !.exc = "ClosedPointer"]
    ELSE LET r == TagNode_close(tr.nodes[tr.pointer], closing_tag)
             ns == [tr.nodes EXCEPT ![tr.pointer] = r.node]
         IN  IF r.exc # "none"
             THEN [tr EXCEPT !.nodes = ns, !.exc = r.exc]
             ELSE IF tr.path = <<>>
             THEN [tr EXCEPT !.nodes = ns, !.exc = "Blocked"]
             ELSE [tr EXCEPT !.nodes = ns,
                             !.pointer = tr.path[Len(tr.path)],
                             !.path = SubSeq(tr.path, 1, Len(tr.path) - 1)]

\* Mutant of HTMLTree_self_close: the pointer stays on the node it closed
HTMLTree_self_close_staying(tr) ==
    IF tr.nodes[tr.pointer].closed
    THEN [tr EXCEPT !.exc = "ClosedPointer"]
    ELSE [tr EXCEPT !.nodes = [tr.nodes EXCEPT ![tr.pointer] = TagNode_self_close(@)]]

HTMLTree_self_close(tr) ==
    IF tr.nodes[tr.pointer].closed
    THEN [tr EXCEPT !.exc = "ClosedPointer"]
    ELSE LET ns == [tr.nodes EXCEPT ![tr.pointer] = TagNode_self_close(@)]
         IN  IF ns[tr.pointer].tag = "root"
             THEN [tr EXCEPT !.nodes = ns]
             ELSE IF tr.path = <<>>
             THEN [tr EXCEPT !.nodes = ns, !.exc = "EmptyPath"]
             ELSE [tr EXCEPT !.nodes = ns,
                             !.pointer = tr.path[Len(tr.path)],
                             !.path = SubSeq(tr.path, 1, Len(tr.path) - 1)]

\* Mutant of check_sanity: the check is left out
check_sanity_skipped(tr) == tr

check_sanity(tr) ==
    IF ~tr.nodes[ROOT].closed THEN [tr EXCEPT !.exc = "RootNotClosed"] ELSE tr

----------------------------------------------------------------------------
\* Pruner

DataNode_clean(ns, n) == [keep |-> TRUE, nodes |-> ns]

\* self.attrs.get('id', set()) | self.attrs.get('class', set()) & set(attrs_delete)
\* Python binds & tighter than |
attrs_test(node, attrs_del) ==
    (attrs_get(node.attrs, "id")
        \cup (attrs_get(node.attrs, "class") \cap attrs_del)) # {}

\* Mutant of TagNode_clean: the children are removed from the list while it
\* is iterated, so the sibling after a removed child is not visited
RECURSIVE TagNode_clean_skipping(_, _, _, _)
RECURSIVE clean_children_skipping(_, _, _, _)
clean_children_skipping(ns, kids, tags_del, attrs_del) ==
    IF kids = <<>> THEN [kept |-> <<>>, nodes |-> ns]
    ELSE LET c == Head(kids)
             r == IF ns[c].kind = "tag"
                  THEN TagNode_clean_skipping(ns, c, tags_del, attrs_del)
                  ELSE DataNode_clean(ns, c)
         IN  IF r.keep
             THEN LET rest == clean_children_skipping(r.nodes, Tail(kids),
                                                      tags_del, attrs_del)
                  IN  [kept |-> <<c>> \o rest.kept, nodes |-> rest.nodes]
             ELSE IF Tail(kids) = <<>> THEN [kept |-> <<>>, nodes |-> r.nodes]
             ELSE LET rest == clean_children_skipping(r.nodes, Tail(Tail(kids)),
                                                      tags_del, attrs_del)
                  IN  [kept  |-> <<Head(Tail(kids))>> \o rest.kept,
                       nodes |-> rest.nodes]
TagNode_clean_skipping(ns, n, tags_del, attrs_del) ==
    IF ns[n].tag \in tags_del THEN [keep |-> FALSE, nodes |-> ns]
    ELSE IF attrs_test(ns[n], attrs_del) THEN [keep |-> FALSE, nodes |-> ns]
    ELSE LET r == clean_children_skipping(ns, ns[n].children, tags_del, attrs_del)
         IN  [keep  |-> TRUE,
              nodes |-> [r.nodes EXCEPT ![n].children = r.kept]]

RECURSIVE TagNode_clean(_, _, _, _)
RECURSIVE clean_children(_, _, _, _)

\* [c.clean(...) for c in self.children] followed by [c for c in ... if c]:
\* the children are cleaned left to right, the survivors kept in order
clean_children(ns, kids, tags_del, attrs_del) ==
    IF kids = <<>> THEN [kept |-> <<>>, nodes |-> ns]
    ELSE LET c    == Head(kids)
             r    == IF ns[c].kind = "tag"
                     THEN TagNode_clean(ns, c, tags_del, attrs_del)
                     ELSE DataNode_clean(ns, c)
             rest == clean_children(r.nodes, Tail(kids), tags_del, attrs_del)
         IN  [kept  |-> IF r.keep THEN <<c>> \o rest.kept ELSE rest.kept,
              nodes |-> rest.nodes]

\* keep = FALSE is the None the method returns for a node to delete
TagNode_clean(ns, n, tags_del, attrs_del) ==
    IF ns[n].tag \in tags_del THEN [keep |-> FALSE, nodes |-> ns]
    ELSE IF attrs_test(ns[n], attrs_del) THEN [keep |-> FALSE, nodes |-> ns]
    ELSE LET r == clean_children(ns, ns[n].children, tags_del, attrs_del)
         IN  [keep  |-> TRUE,
              nodes |-> [r.nodes EXCEPT ![n].children = r.kept]]

\* HTMLTree.clean discards what root.clean returns
HTMLTree_clean(ns, tags_del, attrs_del) ==
    TagNode_clean(ns, ROOT, tags_del, attrs_del).nodes

DefaultTagsDelete ==
    {"script", "noscript", "style", "aside", "header", "footer", "nav",
     "navigation"}

DefaultAttrsDelete ==
    {"menu", "head", "header", "footer", "foot", "nav", "navigation"}

----------------------------------------------------------------------------
\* Text extractor

RECURSIVE node_pure_text(_, _)
RECURSIVE children_pure_text(_, _)

\* [c.pure_text() for c in self.children]
children_pure_text(ns, kids) ==
    IF kids = <<>> THEN <<>>
    ELSE <<node_pure_text(ns, Head(kids))>> \o children_pure_text(ns, Tail(kids))

\* TagNode.pure_text / DataNode.pure_text
node_pure_text(ns, n) ==
    IF ns[n].kind = "data" THEN ns[n].data
    ELSE join_space(children_pure_text(ns, ns[n].children))

\* Mutant of HTMLTree_pure_text: the whitespace is neither collapsed nor
\* trimmed
HTMLTree_pure_text_raw(ns) == node_pure_text(ns, ROOT)

HTMLTree_pure_text(ns) == strip(collapse_ws(node_pure_text(ns, ROOT)))

----------------------------------------------------------------------------
\* Inputs

SELF_CLOSING_TAGS ==
    {"img", "area", "base", "br", "col", "command", "embed", "hr", "input",
     "keygen", "link", "menuitem", "meta", "param", "source", "wbr"}

TagNames == {"div", "footer", "img", "root"}

NoAttrs == <<>>

AttrChoices ==
    { NoAttrs,
      << <<"id", <<"main">>>> >>,
      << <<"class", <<"main">>>> >>,
      << <<"class", <<"menu", " ", "head">>>> >> }

StartTags ==
    {<<"div", a>> : a \in AttrChoices}
        \cup {<<n, NoAttrs>> : n \in TagNames \ {"div"}}

DataChoices ==
    { <<"a">>, <<"\n", "b", " ">>, <<" ", "\t">>, <<"c", "\n", "\t", "d">> }

DenyChoices ==
    { <<DefaultTagsDelete, DefaultAttrsDelete>>,
      <<{"root", "footer"}, {}>>,
      <<{"img"}, {"main"}>> }

\* tok is the parser event handled last, a data event with its stripped content
NoToken == [t |-> "none", p |-> <<>>]

----------------------------------------------------------------------------
\* html_to_tree, event by event

\* Mutant of on_starttag: a void element is left open
on_starttag_left_open(tr, p) == add_node(tr, TagNode(p[1], p[2]))

\* handle_starttag, then the 'starttag' branch of the loop
on_starttag(tr, p) ==
    LET t1 == add_node(tr, TagNode(p[1], p[2]))
    IN  IF p[1] \in SELF_CLOSING_TAGS THEN HTMLTree_self_close(t1) ELSE t1

\* Mutant of on_endtag: the end tag of a void element is applied as well
on_endtag_applied(tr, p) == close_node(tr, p)

\* the 'endtag' branch of the loop
on_endtag(tr, p) ==
    IF p \notin SELF_CLOSING_TAGS THEN close_node(tr, p) ELSE tr

\* Mutant of handle_data: the data is taken as it comes
handle_data_unstripped(data) == data

\* handle_data: data that strips to nothing yields no token
handle_data(data) == strip(data)

\* the 'data' branch of the loop
on_data(tr, p) == add_data(tr, DataNode(p))

\* Mutant of on_end: the forced close is repeated until the root is closed
RECURSIVE self_close_all(_)
self_close_all(tr) ==
    LET t1 == HTMLTree_self_close(tr)
    IN  IF t1.exc # "none" \/ t1.nodes[ROOT].closed THEN t1
        ELSE self_close_all(t1)
on_end_forced(tr) ==
    LET t1 == self_close_all(tr)
    IN  IF t1.exc # "none" THEN t1 ELSE check_sanity(t1)

\* after the loop: tree.self_close(); tree.check_sanity()
on_end(tr) ==
    LET t1 == HTMLTree_self_close(tr)
    IN  IF t1.exc # "none" THEN t1 ELSE check_sanity(t1)

----------------------------------------------------------------------------
\* Two callers and the objects they can share

Instances == {1, 2}

\* owner 0: the class HTMLTreeParser and the function defaults
SHARED == 0

tags_delete_default ==
    <<"script", "noscript", "style", "aside", "header", "footer", "nav",
      "navigation">>

attrs_delete_default ==
    <<"menu", "head", "header", "footer", "foot", "nav", "navigation">>

\* a list object is named by its owner and the name that refers to it
HeapInit ==
    [o \in ((Instances \cup {SHARED}) \X {"members", "types"})
             \cup ({SHARED} \X {"tags_delete", "attrs_delete"}) |->
        CASE o = <<SHARED, "tags_delete">>  -> tags_delete_default
          [] o = <<SHARED, "attrs_delete">> -> attrs_delete_default
          [] OTHER                          -> <<>>]

\* Mutant of HTMLTreeParser_init: the two assignments are left out, so the
\* attribute lookups find the lists of the class
HTMLTreeParser_init_shared(i) == [members |-> SHARED, types |-> SHARED]

\* self.members = []; self.types = []: the parser refers to lists of its own
HTMLTreeParser_init(i) == [members |-> i, types |-> i]

\* handle_starttag / handle_endtag / handle_data on the parser's lists
parser_handle(h, refs, ev) ==
    LET put(p) == [h EXCEPT ![<<refs.members, "members">>] = Append(@, p),
                            ![<<refs.types, "types">>] = Append(@, ev.t)]
    IN  CASE ev.t = "starttag" -> put(ev.p)
          [] ev.t = "endtag"   -> put(ev.p)
          [] ev.t = "data"     -> IF handle_data(ev.p) # <<>>
                                  THEN put(handle_data(ev.p)) ELSE h

\* the body of the loop over zip(parser.types, parser.members)
loop_body(tr, t, p) ==
    CASE t = "starttag" -> on_starttag(tr, p)
      [] t = "data"     -> on_data(tr, p)
      [] t = "endtag"   -> on_endtag(tr, p)

\* what zip still has to give after k pairs
zip_has_next(h, refs, k) ==
    /\ k < Len(h[<<refs.types, "types">>])
    /\ k < Len(h[<<refs.members, "members">>])

ProcInit(input) ==
    [pc |-> "start", input |-> input, fed |-> 0,
     refs |-> [members |-> SHARED, types |-> SHARED], pos |-> 0,
     tree |-> HTMLTree_init, text |-> <<>>]

Ev(t, p) == [t |-> t, p |-> p]

PairInputs ==
    { <<Ev("starttag", <<"div", NoAttrs>>), Ev("data", <<"a">>),
        Ev("endtag", "div")>>,
      <<Ev("starttag", <<"div", << <<"class", <<"menu", " ", "head">>>> >> >>),
        Ev("data", <<"\n", "b", " ">>), Ev("endtag", "footer")>>,
      <<Ev("starttag", <<"footer", NoAttrs>>), Ev("endtag", "img"),
        Ev("data", <<" ", "\t">>)>>,
      <<Ev("endtag", "root")>>,
      <<Ev("starttag", <<"img", NoAttrs>>), Ev("data", <<"b">>)>> }

----------------------------------------------------------------------------
\* State machine

tree == [nodes |-> nodes, pointer |-> pointer, path |-> path, exc |-> "none"]

TreeInit ==
    /\ nodes = HTMLTree_init.nodes
    /\ pointer = HTMLTree_init.pointer
    /\ path = HTMLTree_init.path
    /\ status = "building"
    /\ error = "none"
    /\ consumed = 0
    /\ tok = NoToken
    /\ tags_delete = {}
    /\ attrs_delete = {}
    /\ cleaned = FALSE
    /\ text = [done |-> FALSE, s |-> <<>>]

Init ==
    /\ TreeInit
    /\ procs = [i \in Instances |-> ProcInit(<<>>)]
    /\ heap = HeapInit

\* The tree after a step of html_to_tree, with how the call stands
Commit(tr) ==
    /\ nodes' = tr.nodes
    /\ pointer' = tr.pointer
    /\ path' = tr.path
    /\ error' = tr.exc
    /\ status' = CASE tr.exc = "none"    -> status
                   [] tr.exc = "Blocked" -> "blocked"
                   [] OTHER              -> "error"

StartTag(p) ==
    /\ status = "building"
    /\ consumed < MaxTokens
    /\ Commit(on_starttag(tree, p))
    /\ consumed' = consumed + 1
    /\ tok' = [t |-> "starttag", p |-> p]
    /\ UNCHANGED <<tags_delete, attrs_delete, cleaned, text, procs, heap>>

EndTag(p) ==
    /\ status = "building"
    /\ consumed < MaxTokens
    /\ Commit(on_endtag(tree, p))
    /\ consumed' = consumed + 1
    /\ tok' = [t |-> "endtag", p |-> <<p>>]
    /\ UNCHANGED <<tags_delete, attrs_delete, cleaned, text, procs, heap>>

Data(d) ==
    /\ status = "building"
    /\ consumed < MaxTokens
    /\ LET p == handle_data(d)
       IN  /\ IF p # <<>>
              THEN Commit(on_data(tree, p))
              ELSE UNCHANGED <<nodes, pointer, path, status, error>>
           /\ tok' = [t |-> "data", p |-> p]
    /\ consumed' = consumed + 1
    /\ UNCHANGED <<tags_delete, attrs_delete, cleaned, text, procs, heap>>

EndOfStream ==
    /\ status = "building"
    /\ LET tr == on_end(tree)
       IN  /\ nodes' = tr.nodes
           /\ pointer' = tr.pointer
           /\ path' = tr.path
           /\ error' = tr.exc
           /\ status' = IF tr.exc = "none" THEN "built" ELSE "error"
    /\ tok' = [t |-> "eof", p |-> <<>>]
    /\ UNCHANGED <<consumed, tags_delete, attrs_delete, cleaned, text,
                   procs, heap>>

\* tree.clean(tags_delete, attrs_delete) on a built tree
Clean(d) ==
    /\ status = "built"
    /\ ~text.done
    /\ nodes' = HTMLTree_clean(nodes, d[1], d[2])
    /\ tags_delete' = d[1]
    /\ attrs_delete' = d[2]
    /\ cleaned' = TRUE
    /\ UNCHANGED <<pointer, path, status, error, consumed, tok, text,
                   procs, heap>>

\* tree.pure_text() on a built, possibly pruned, tree
PureText ==
    /\ status = "built"
    /\ ~text.done
    /\ text' = [done |-> TRUE, s |-> HTMLTree_pure_text(nodes)]
    /\ UNCHANGED <<nodes, pointer, path, status, error, consumed, tok,
                   tags_delete, attrs_delete, cleaned, procs, heap>>

Next ==
    \/ \E p \in StartTags : StartTag(p)
    \/ \E p \in TagNames : EndTag(p)
    \/ \E d \in DataChoices : Data(d)
    \/ EndOfStream
    \/ \E d \in DenyChoices : Clean(d)
    \/ PureText

Spec == Init /\ [][Next]_vars

----------------------------------------------------------------------------
\* Two callers interleaved, one step of html_to_tree at a time

PairInit ==
    /\ TreeInit
    /\ procs \in [Instances -> {ProcInit(inp) : inp \in PairInputs}]
    /\ heap = HeapInit

\* parser = HTMLTreeParser()
NewParser(i) ==
    /\ procs[i].pc = "start"
    /\ procs' = [procs EXCEPT ![i].refs = HTMLTreeParser_init(i),
                              ![i].pc = "feeding"]
    /\ UNCHANGED <<heap, tvars>>

\* parser.feed: the handler of the next event
Feed(i) ==
    /\ procs[i].pc = "feeding"
    /\ procs[i].fed < Len(procs[i].input)
    /\ heap' = parser_handle(heap, procs[i].refs,
                             procs[i].input[procs[i].fed + 1])
    /\ procs' = [procs EXCEPT ![i].fed = @ + 1]
    /\ UNCHANGED tvars

\* tree = HTMLTree()
NewTree(i) ==
    /\ procs[i].pc = "feeding"
    /\ procs[i].fed = Len(procs[i].input)
    /\ procs' = [procs EXCEPT ![i].tree = HTMLTree_init, ![i].pos = 0,
                              ![i].pc = "building"]
    /\ UNCHANGED <<heap, tvars>>

PcAfter(tr, pc) ==
    CASE tr.exc = "none"    -> pc
      [] tr.exc = "Blocked" -> "blocked"
      [] OTHER              -> "error"

\* one turn of the loop
Token(i) ==
    /\ procs[i].pc = "building"
    /\ zip_has_next(heap, procs[i].refs, procs[i].pos)
    /\ LET k  == procs[i].pos + 1
           tr == loop_body(procs[i].tree,
                           heap[<<procs[i].refs.types, "types">>][k],
                           heap[<<procs[i].refs.members, "members">>][k])
       IN  procs' = [procs EXCEPT ![i].tree = tr, ![i].pos = k,
                                  ![i].pc = PcAfter(tr, "building")]
    /\ UNCHANGED <<heap, tvars>>

\* the loop is over: self_close, check_sanity, return
Finish(i) ==
    /\ procs[i].pc = "building"
    /\ ~zip_has_next(heap, procs[i].refs, procs[i].pos)
    /\ LET tr == on_end(procs[i].tree)
       IN  procs' = [procs EXCEPT ![i].tree = tr,
                                  ![i].pc = PcAfter(tr, "built")]
    /\ UNCHANGED <<heap, tvars>>

\* tree.clean() with the default arguments
CleanDefault(i) ==
    /\ procs[i].pc = "built"
    /\ procs' = [procs EXCEPT
                    ![i].tree.nodes =
                        HTMLTree_clean(@, Range(heap[<<SHARED, "tags_delete">>]),
                                       Range(heap[<<SHARED, "attrs_delete">>])),
                    ![i].pc = "cleaned"]
    /\ UNCHANGED <<heap, tvars>>

\* tree.pure_text()
Extract(i) ==
    /\ procs[i].pc = "cleaned"
    /\ procs' = [procs EXCEPT ![i].text = HTMLTree_pure_text(procs[i].tree.nodes),
                              ![i].pc = "done"]
    /\ UNCHANGED <<heap, tvars>>

PairNext ==
    \/ \E i \in Instances : NewParser(i)
    \/ \E i \in Instances : Feed(i)
    \/ \E i \in Instances : NewTree(i)
    \/ \E i \in Instances : Token(i)
    \/ \E i \in Instances : Finish(i)
    \/ \E i \in Instances : CleanDefault(i)
    \/ \E i \in Instances : Extract(i)

PairSpec == PairInit /\ [][PairNext]_vars

----------------------------------------------------------------------------
\* Vocabulary of the properties

\* the nodes reachable from n through the children lists
RECURSIVE Subtree(_, _)
Subtree(ns, n) ==
    {n} \cup UNION {Subtree(ns, ns[n].children[i]) :
                        i \in 1..Len(ns[n].children)}

TagIds(ns) == {n \in DOMAIN ns : ns[n].kind = "tag"}

\* the removal test as the pruning contract words it
Matches(node, tags_del, attrs_del) ==
    \/ node.tag \in tags_del
    \/ (attrs_get(node.attrs, "id") \cup attrs_get(node.attrs, "class"))
           \cap attrs_del # {}

\* the nodes at or below n with no matching TagNode on the path from n to them
RECURSIVE Unmatched(_, _, _, _)
Unmatched(ns, n, tags_del, attrs_del) ==
    IF ns[n].kind = "tag" /\ Matches(ns[n], tags_del, attrs_del) THEN {}
    ELSE {n} \cup UNION {Unmatched(ns, ns[n].children[i], tags_del, attrs_del) :
                            i \in 1..Len(ns[n].children)}

\* the elements of s that are in S, in the order of s
RECURSIVE Restrict(_, _)
Restrict(s, S) ==
    IF s = <<>> THEN <<>>
    ELSE IF Head(s) \in S THEN <<Head(s)>> \o Restrict(Tail(s), S)
    ELSE Restrict(Tail(s), S)

\* the contents of the TextNodes at or below n, in document order
RECURSIVE TextsInOrder(_, _)
RECURSIVE TextsOfAll(_, _)
TextsOfAll(ns, kids) ==
    IF kids = <<>> THEN <<>>
    ELSE TextsInOrder(ns, Head(kids)) \o TextsOfAll(ns, Tail(kids))
TextsInOrder(ns, n) ==
    IF ns[n].kind = "data" THEN <<ns[n].data>>
    ELSE TextsOfAll(ns, ns[n].children)

\* words separated by exactly one space
RECURSIVE OneSpaceBetween(_)
OneSpaceBetween(ws) ==
    IF ws = <<>> THEN <<>>
    ELSE IF Tail(ws) = <<>> THEN Head(ws)
    ELSE Head(ws) \o <<" ">> \o OneSpaceBetween(Tail(ws))

WordsOnly(ns) ==
    \A n \in DOMAIN ns : \A i \in 1..Len(ns[n].data) : ns[n].data[i] \notin Whitespace

IsEndTagStep(p) ==
    /\ status = "building"
    /\ consumed' = consumed + 1
    /\ tok'.t = "endtag"
    /\ tok'.p = <<p>>

----------------------------------------------------------------------------
\* Properties

\* C1 as claimed: a token stream without a mismatching EndTag never fails, so
\* the only failure of a build is the tag mismatch; UnclosedRootError is
\* never raised.
C1_ForcedCloseSucceeds ==
    status = "error" => error = "TagMismatch"

\* C1 as amended: at end-of-stream SelfClose runs once and closes the cursor
\* only.  The build succeeds exactly when the cursor is the root; with an
\* element still open the cursor is closed, the root stays open and the
\* sanity check fails with UnclosedRootError.
C1_EndOfStreamClosesCursorOnly ==
    [][EndOfStream =>
        /\ nodes'[pointer].closed
        /\ \A n \in DOMAIN nodes \ {pointer} : nodes'[n] = nodes[n]
        /\ pointer = ROOT => status' = "built" /\ error' = "none"
        /\ pointer # ROOT =>
              /\ status' = "error"
              /\ error' = "RootNotClosed"
              /\ ~nodes'[ROOT].closed]_vars

\* StartTag(div), StartTag(footer), Text, EndTag(footer), end-of-stream
C1_Witness ==
    /\ status = "error" /\ error = "RootNotClosed" /\ tok.t = "eof"
    /\ Len(nodes) = 4
    /\ nodes[2].tag = "div" /\ nodes[2].closed
    /\ nodes[3].tag = "footer" /\ nodes[3].closed
    /\ nodes[4].kind = "data"
    /\ ~nodes[ROOT].closed

\* C2 as claimed: a prune keeps every TagNode that does not match and has no
\* matching ancestor, under its parent, with exactly its descendants that
\* have no matching node above them.
C2_PruneKeepsNonMatching ==
    [][\A d \in DenyChoices : Clean(d) =>
        LET keep == Unmatched(nodes, ROOT, d[1], d[2])
        IN  /\ keep \subseteq Subtree(nodes', ROOT)
            /\ \A n \in keep \cap TagIds(nodes) :
                  nodes'[n].children = Restrict(nodes[n].children, keep)]_vars

\* C3 as claimed: after a prune no matching node, the root included, and no
\* descendant of a matching node is reachable from the root (for a matching
\* root: nothing is left below it).
C3_PruneDropsMatching ==
    [][\A d \in DenyChoices : Clean(d) =>
        \A n \in Subtree(nodes, ROOT) \cap TagIds(nodes) :
            Matches(nodes[n], d[1], d[2]) =>
                IF n = ROOT
                THEN Subtree(nodes', ROOT) = {ROOT}
                ELSE Subtree(nodes, n) \cap Subtree(nodes', ROOT) = {}]_vars

\* C4 as claimed: every token is processed in a bounded number of steps; the
\* builder never blocks waiting on the ancestor stack.
C4_NeverBlocks ==
    status # "blocked"

\* C5: when the build returns a tree, every TagNode reachable from the root,
\* the root included, is closed, and the cursor is the root with an empty
\* ancestor stack.
C5_Balance ==
    status = "built" =>
        /\ \A n \in Subtree(nodes, ROOT) \cap TagIds(nodes) : nodes[n].closed
        /\ nodes[ROOT].closed
        /\ pointer = ROOT
        /\ path = <<>>

\* an element nested in another, both closed by their end tags
C5_Witness ==
    /\ status = "built" /\ ~cleaned
    /\ \E n \in TagIds(nodes) : nodes[n].level = 2 /\ nodes[n].tag = "div"

\* C6: an EndTag with a non-void name other than the cursor's name fails with
\* the tag mismatch at that token: the cursor is not closed, the stack is not
\* popped, and after the failure no token is processed and no tree returned.
C6_MismatchAborts ==
    [][/\ status = "error" => UNCHANGED vars
       /\ \A p \in TagNames :
            (IsEndTagStep(p) /\ p \notin SELF_CLOSING_TAGS
                             /\ p # nodes[pointer].tag) =>
                /\ status' = "error"
                /\ error' = "TagMismatch"
                /\ nodes' = nodes
                /\ pointer' = pointer
                /\ path' = path]_vars

\* a mismatching EndTag while an element is open
C6_Witness ==
    /\ status = "error" /\ error = "TagMismatch"
    /\ tok.t = "endtag"
    /\ pointer # ROOT
    /\ tok.p # <<nodes[pointer].tag>>
    /\ ~nodes[pointer].closed
    /\ path # <<>>

\* C7: an EndTag with a non-void name other than "root" that arrives with the
\* cursor back at the root fails with the tag mismatch, never with the stack
\* underflow or the 'cursor already closed' failure.
C7_SurplusCloseIsMismatch ==
    [][\A p \in TagNames \ (SELF_CLOSING_TAGS \cup {"root"}) :
          (IsEndTagStep(p) /\ pointer = ROOT /\ path = <<>>) =>
              status' = "error" /\ error' = "TagMismatch"]_vars

\* StartTag(div), EndTag(div), EndTag(div)
C7_Witness ==
    /\ status = "error" /\ error = "TagMismatch"
    /\ consumed = 3
    /\ tok.t = "endtag" /\ tok.p = <<"div">>
    /\ pointer = ROOT /\ path = <<>>
    /\ Len(nodes) = 2 /\ nodes[2].tag = "div" /\ nodes[2].closed

\* C8: pruning a pruned tree again with the same sets leaves it as it is.
C8_PruneIdempotent ==
    (status = "built" /\ cleaned) =>
        HTMLTree_clean(nodes, tags_delete, attrs_delete) = nodes

\* a prune that removed a subtree and kept another
C8_Witness ==
    /\ status = "built" /\ cleaned
    /\ Subtree(nodes, ROOT) # DOMAIN nodes
    /\ Cardinality(Subtree(nodes, ROOT)) >= 3

\* C9: while building, every node but the root is a child of exactly one
\* node, and the children of every node are in the order of the input events
\* that created them (a node's index is the rank of its event).
C9_ChildrenInEventOrder ==
    ~cleaned =>
        /\ \A n \in DOMAIN nodes :
              \A i, j \in 1..Len(nodes[n].children) :
                  i < j => nodes[n].children[i] < nodes[n].children[j]
        /\ \A c \in DOMAIN nodes \ {ROOT} :
              Cardinality({n \in DOMAIN nodes : c \in Range(nodes[n].children)}) = 1

\* a tag and a text appended after an earlier child of the same open element
C9_Witness ==
    /\ status = "building"
    /\ \E n \in DOMAIN nodes :
          /\ Len(nodes[n].children) = 3
          /\ nodes[nodes[n].children[2]].kind = "tag"
          /\ nodes[nodes[n].children[3]].kind = "data"

\* C10: for whitespace-free words, the extracted text is the contents of the
\* TextNodes reachable from the root, in document order, with exactly one
\* space between two contents and none before or after.
C10_PureTextJoinsWords ==
    (text.done /\ WordsOnly(nodes)) =>
        text.s = OneSpaceBetween(TextsInOrder(nodes, ROOT))

\* two texts around a childless element
C10_Witness ==
    /\ text.done
    /\ text.s = <<"a", " ", "b">>
    /\ \E n \in TagIds(nodes) \cap Subtree(nodes, ROOT) :
          n # ROOT /\ nodes[n].children = <<>>

\* a tree whose root has no children yields the empty string
C10_WitnessEmpty ==
    text.done /\ nodes[ROOT].children = <<>> /\ text.s = <<>>

IsStartTagStep(p) ==
    /\ status = "building"
    /\ consumed' = consumed + 1
    /\ tok'.t = "starttag"
    /\ tok'.p = p

VoidIds(ns) == {n \in TagIds(ns) : ns[n].tag \in SELF_CLOSING_TAGS}

\* C12: a StartTag of a void element is opened and closed within its token:
\* afterwards the new node is a closed, childless last child of the previous
\* cursor, the cursor and the ancestor stack are as before, and in no state
\* does a void-element node have children.
C12_VoidOpensAndCloses ==
    [][/\ \A n \in VoidIds(nodes') : nodes'[n].children = <<>>
       /\ \A p \in StartTags :
            (IsStartTagStep(p) /\ p[1] \in SELF_CLOSING_TAGS) =>
                LET new == Len(nodes) + 1
                IN  /\ Len(nodes') = new
                    /\ nodes'[new].tag = p[1]
                    /\ nodes'[new].closed
                    /\ nodes'[new].children = <<>>
                    /\ nodes'[pointer].children =
                           Append(nodes[pointer].children, new)
                    /\ pointer' = pointer
                    /\ path' = path
                    /\ status' = "building"]_vars

\* a void element opened inside an open element, followed by a text
C12_Witness ==
    /\ status = "building"
    /\ pointer # ROOT
    /\ Len(nodes[pointer].children) = 2
    /\ nodes[pointer].children[1] \in VoidIds(nodes)
    /\ nodes[nodes[pointer].children[1]].closed
    /\ nodes[nodes[pointer].children[2]].kind = "data"

\* C13: an EndTag of a void element is ignored in every builder state: the
\* nodes with their closed flags, the cursor and the ancestor stack stay as
\* they are and no error is produced, whatever the cursor's name.
C13_VoidEndTagIgnored ==
    [][\A p \in TagNames \cap SELF_CLOSING_TAGS :
          IsEndTagStep(p) =>
              /\ nodes' = nodes
              /\ pointer' = pointer
              /\ path' = path
              /\ status' = "building"
              /\ error' = "none"]_vars

\* EndTag(img) while a div is the cursor, and at the root
C13_Witness ==
    /\ status = "building"
    /\ tok.t = "endtag" /\ tok.p = <<"img">>
    /\ pointer # ROOT
    /\ nodes[pointer].tag = "div"
    /\ ~nodes[pointer].closed

ParentOf(ns, n) == CHOOSE m \in DOMAIN ns : n \in Range(ns[m].children)

\* the proper ancestors of n, the root first
RECURSIVE AncestorsOf(_, _)
AncestorsOf(ns, n) ==
    IF n = ROOT THEN <<>>
    ELSE Append(AncestorsOf(ns, ParentOf(ns, n)), ParentOf(ns, n))

\* C15: the ancestor stack holds exactly the proper ancestors of the cursor,
\* root at the bottom and the cursor's parent on top, so it is empty exactly
\* when the cursor is the root and as long as the cursor is deep; the stack
\* underflow failure is never raised.
C15_PathIsAncestors ==
    /\ path = AncestorsOf(nodes, pointer)
    /\ Len(path) = nodes[pointer].level
    /\ path = <<>> <=> pointer = ROOT
    /\ error # "EmptyPath"

\* the cursor two levels down, after a child of it was closed
C15_Witness ==
    /\ status = "building"
    /\ Len(path) = 2
    /\ nodes[pointer].children # <<>>
    /\ tok.t = "endtag"

\* C16: while building and after any prune the root has depth 0 and every
\* other node reachable from the root, TagNode or TextNode, has the depth of
\* its parent plus one.
C16_Depth ==
    /\ nodes[ROOT].level = 0
    /\ \A n \in Subtree(nodes, ROOT) :
          \A i \in 1..Len(nodes[n].children) :
              nodes[nodes[n].children[i]].level = nodes[n].level + 1

\* after a prune that removed a node, a text two levels down
C16_Witness ==
    /\ cleaned
    /\ Subtree(nodes, ROOT) # DOMAIN nodes
    /\ \E n \in Subtree(nodes, ROOT) : nodes[n].kind = "data" /\ nodes[n].level = 2

\* C17 as claimed: a prune removes whole subtrees only: the children of a
\* surviving node are a subsequence of what they were, its other fields are
\* unchanged, no node appears, and every TextNode with no matching ancestor
\* is kept unchanged.
C17_PruneRemovesSubtreesOnly ==
    [][\A d \in DenyChoices : Clean(d) =>
        LET after == Subtree(nodes', ROOT)
        IN  /\ after \subseteq Subtree(nodes, ROOT)
            /\ Len(nodes') = Len(nodes)
            /\ \A n \in after :
                  /\ nodes'[n].children = Restrict(nodes[n].children, after)
                  /\ [nodes'[n] EXCEPT !.children = <<>>]
                         = [nodes[n] EXCEPT !.children = <<>>]
            /\ \A n \in Unmatched(nodes, ROOT, d[1], d[2]) :
                  nodes[n].kind = "data" =>
                      n \in after /\ nodes'[n] = nodes[n]]_vars

\* d with its leading and trailing whitespace removed is w
StrippedIs(d, w) ==
    \E i \in 0..Len(d) : \E j \in i..Len(d) :
        /\ w = SubSeq(d, i + 1, j)
        /\ \A k \in 1..i : d[k] \in Whitespace
        /\ \A k \in (j + 1)..Len(d) : d[k] \in Whitespace
        /\ w # <<>> => w[1] \notin Whitespace /\ w[Len(w)] \notin Whitespace

\* C18: a Text event leaves the cursor, the ancestor stack and every closed
\* flag as they are.  With content left after stripping it appends exactly
\* one closed TextNode holding the stripped content as the last child of the
\* cursor; with none it changes nothing.
C18_TextOnlyAppends ==
    [][\A d \in DataChoices : Data(d) =>
        /\ pointer' = pointer
        /\ path' = path
        /\ status' = status
        /\ error' = error
        /\ \A n \in DOMAIN nodes : nodes'[n].closed = nodes[n].closed
        /\ IF \A i \in 1..Len(d) : d[i] \in Whitespace
           THEN nodes' = nodes
           ELSE LET new == Len(nodes) + 1
                IN  /\ Len(nodes') = new
                    /\ nodes'[new].kind = "data"
                    /\ nodes'[new].closed
                    /\ nodes'[new].children = <<>>
                    /\ StrippedIs(d, nodes'[new].data)
                    /\ nodes'[pointer] =
                          [nodes[pointer] EXCEPT !.children = Append(@, new)]
                    /\ \A n \in DOMAIN nodes \ {pointer} :
                          nodes'[n] = nodes[n]]_vars

\* the padded text "\n b " stored as "b" under an open div
C18_Witness ==
    /\ status = "building"
    /\ tok.t = "data"
    /\ pointer # ROOT
    /\ nodes[Len(nodes)].kind = "data"
    /\ nodes[Len(nodes)].data = <<"b">>
    /\ nodes[pointer].children[Len(nodes[pointer].children)] = Len(nodes)

\* a whitespace-only text that left the tree as it was
C18_WitnessBlank ==
    /\ status = "building"
    /\ tok.t = "data" /\ tok.p = <<>>
    /\ Len(nodes) > 1

\* what one caller gets when it runs alone, from a fresh parser to the text
RECURSIVE FedAlone(_, _, _)
FedAlone(h, refs, evs) ==
    IF evs = <<>> THEN h
    ELSE FedAlone(parser_handle(h, refs, Head(evs)), refs, Tail(evs))

RECURSIVE BuiltAlone(_, _, _, _)
BuiltAlone(tr, h, refs, k) ==
    IF tr.exc # "none" THEN tr
    ELSE IF ~zip_has_next(h, refs, k) THEN on_end(tr)
    ELSE BuiltAlone(loop_body(tr, h[<<refs.types, "types">>][k + 1],
                              h[<<refs.members, "members">>][k + 1]),
                    h, refs, k + 1)

Alone(input) ==
    LET refs == [members |-> 1, types |-> 1]
        h    == FedAlone(HeapInit, refs, input)
        tr   == BuiltAlone(HTMLTree_init, h, refs, 0)
        ns   == HTMLTree_clean(tr.nodes, Range(tags_delete_default),
                               Range(attrs_delete_default))
    IN  IF tr.exc # "none"
        THEN [pc |-> PcAfter(tr, "built"), tree |-> tr, text |-> <<>>]
        ELSE [pc |-> "done", tree |-> [tr EXCEPT !.nodes = ns],
              text |-> HTMLTree_pure_text(ns)]

\* C11: two callers with a parser and a tree each share no mutable state:
\* however their steps interleave, each ends with the tree, the text or the
\* failure it gets when it runs alone, and the class-level lists and the
\* default removal lists are never modified.
C11_CallersIndependent ==
    /\ \A i \in Instances :
          procs[i].pc \in {"done", "error", "blocked"} =>
              [pc |-> procs[i].pc, tree |-> procs[i].tree,
               text |-> procs[i].text] = Alone(procs[i].input)
    /\ heap[<<SHARED, "tags_delete">>] = tags_delete_default
    /\ heap[<<SHARED, "attrs_delete">>] = attrs_delete_default
    /\ heap[<<SHARED, "members">>] = <<>>
    /\ heap[<<SHARED, "types">>] = <<>>

\* both callers finished, on different inputs and with different outcomes
C11_Witness ==
    /\ procs[1].pc = "done" /\ procs[1].text = <<"a">>
    /\ procs[2].pc = "error" /\ procs[2].tree.exc = "RootNotClosed"
    /\ Len(heap[<<1, "members">>]) = 3
    /\ Len(heap[<<2, "members">>]) = 2

====
